---- MODULE Spec2Model ----
(***************************************************************************)
(* Delivery reliability engine of the notification service                 *)
(* (app/delivery_manager.py, the retry endpoint of app/main.py).           *)
(*                                                                         *)
(* The engine runs on one asyncio event loop: code between two suspension  *)
(* points is one atomic step.  The suspension points are                   *)
(*   - asyncio.sleep(delay) of a deferred retry (_schedule_retry),         *)
(*   - asyncio.sleep(0.5) between two chunks of a chat message             *)
(*     (_send_telegram_notification),                                      *)
(*   - asyncio.sleep(30) of the background sweep (_process_retry_queue).   *)
(* The email and messaging senders of main.py call smtplib / requests      *)
(* synchronously, so an attempt on those channels never suspends.          *)
(* asyncio resumes a sleeper no earlier than its delay; no upper bound is  *)
(* guaranteed, so a due sleeper is resumed at any later step.              *)
(*                                                                         *)
(* Time is kept relative to the present: a record holds the seconds since  *)
(* its last_attempt (now - last_attempt), a sleeping task the seconds it   *)
(* still has to sleep.  Tick moves every clock by the same step.           *)
(*                                                                         *)
(* Spec is the whole engine with senders that report their result.         *)
(* FairSpec adds that timers fire and the sweep keeps running.  SpecRaise  *)
(* is the attempt, retry and fallback machinery with senders that may      *)
(* raise.  SpecFormat is the message formatter applied to one template.    *)
(***************************************************************************)
EXTENDS Integers, Sequences, FiniteSets, Bags, TLC

\* ------------------------------------------------------------- bounds
MaxNotifications == 1
MaxManualRetries == 1
MaxParts == 2
MaxTicks == 1
MaxRaises == 1
MaxSections == 3
MaxPairSends == 5

\* ---------------------------------------------------------- constants
max_retries == 3
sweep_interval == 30
retry_delays == <<30, 120, 300, 900>>
retention_seconds == 24 * 3600

DeliveryChannel == {"telegram", "email", "whatsapp", "sms"}

PrimaryChannels == {"telegram", "email", "whatsapp"}

fallback_channels ==
  [c \in DeliveryChannel |->
     CASE c = "telegram" -> <<"email", "whatsapp">>
       [] c = "email"    -> <<"telegram", "whatsapp">>
       [] c = "whatsapp" -> <<"email", "telegram">>
       [] OTHER          -> <<>>]

None == "None"

NoTime == 0 - 1

VARIABLES
  delivery_queue,  \* notification_id -> NotificationDeliveryStatus
  requests,        \* notification_id -> the request its tasks hold
  timers,          \* bag of _schedule_retry tasks in asyncio.sleep(delay)
  inflight,        \* attempts suspended between two chunks of a chat message
  retry_task,      \* self._retry_task: the sweep task and the rest of its sleep
  next_id,         \* number of notification ids handed out so far
  log,             \* notification_id -> sender calls completed, in order
  submit_result,   \* notification_id -> <<record as returned by submit>>
  manual_retries,  \* notification_id -> successful calls of the retry endpoint
  fallbacks,       \* notification_id -> channels _try_fallback_channels ran for
  retry_responses, \* the answers of the retry endpoint, in the order of the calls
  template,        \* the NotificationTemplate handed to format_message_parts
  message_parts    \* what format_message_parts returned for it

vars == <<delivery_queue, requests, timers, inflight, retry_task,
          next_id, log, submit_result, manual_retries, fallbacks,
          retry_responses, template, message_parts>>

\* ------------------------------------------------------------ helpers
Min(a, b) == IF a < b THEN a ELSE b

\* Python list indexing: a negative index counts from the end.
PyIndex(seq, i) == IF i < 0 THEN seq[Len(seq) + i + 1] ELSE seq[i + 1]

\* Mutant: the backoff table is indexed by attempts.
RetryDelayByAttempts(attempts) ==
  PyIndex(retry_delays, Min(attempts, Len(retry_delays) - 1))

\* retry_delays[min(attempts - 1, len(retry_delays) - 1)]
RetryDelay(attempts) ==
  PyIndex(retry_delays, Min(attempts - 1, Len(retry_delays) - 1))

Max(a, b) == IF a > b THEN a ELSE b

\* The steps the clock moves by: the sweep interval, the retention window and
\* the backoff delays the engine reads (attempts = 0, after a manual retry,
\* reads retry_delays[-1]).
TickSteps ==
  {sweep_interval, retention_seconds} \cup
  {RetryDelay(a) : a \in 0..(max_retries - 1)}

\* Seconds since last_attempt are kept exactly up to MaxAge.  Above it the
\* record keeps the largest of the values its age is compared with that the
\* age has reached: a backoff delay, or more than the retention window.
MaxAge == MaxTicks * sweep_interval

AgeMarks ==
  {MaxAge} \cup {RetryDelay(a) : a \in 0..(max_retries - 1)}

Elapse(age, d) ==
  IF age = NoTime THEN NoTime
  ELSE IF age + d > retention_seconds THEN retention_seconds + sweep_interval
  ELSE IF age + d <= MaxAge THEN age + d
  ELSE CHOOSE a \in AgeMarks :
         /\ a <= age + d
         /\ \A b \in AgeMarks : b <= age + d => b <= a

\* A request: the primary channel, the channels its contact_info has an
\* address for, and the number of chunks its chat message is split into.
Requests ==
  {r \in [primary : PrimaryChannels, contact : SUBSET PrimaryChannels,
          parts : 1..MaxParts] :
     r.parts > 1 => "telegram" \in r.contact}

NewStatus(channel) ==
  [channel |-> channel, status |-> "pending", attempts |-> 0,
   max_attempts |-> max_retries, since_attempt |-> NoTime,
   error_message |-> None, delivery_confirmation |-> <<>>]

\* Mutant: every channel passes for one the request has an address for.
AnyChannelHasContact(contact, channel) == channel \in DeliveryChannel

_has_contact_info_for_channel(contact, channel) ==
  CASE channel = "telegram" -> "telegram" \in contact
    [] channel = "email"    -> "email" \in contact
    [] channel = "whatsapp" -> "whatsapp" \in contact
    [] OTHER                -> FALSE

NoAddressMessage(channel) ==
  CASE channel = "telegram" -> "No Telegram chat ID available"
    [] channel = "email"    -> "No email address available"
    [] channel = "whatsapp" -> "No WhatsApp number available"
    [] OTHER                -> "SMS delivery not implemented"

TransportError(channel) ==
  CASE channel = "telegram" -> "Telegram API error"
    [] channel = "email"    -> "Failed to send email"
    [] channel = "whatsapp" -> "WhatsApp API error"
    [] OTHER                -> "SMS delivery not implemented"

\* str(e) of the exception a sender's network call raised.
ExceptionText(channel) ==
  CASE channel = "telegram" -> "telegram: exception"
    [] channel = "email"    -> "email: exception"
    [] channel = "whatsapp" -> "whatsapp: exception"
    [] OTHER                -> "sms: exception"

\* Mutant: a sender that raises is taken to have delivered.
RaiseIsSwallowed(channel, outcome) ==
  CASE outcome = "noaddr" -> [success |-> FALSE,
                              error_message |-> NoAddressMessage(channel)]
    [] outcome = "fail"   -> [success |-> FALSE,
                              error_message |-> TransportError(channel)]
    [] OTHER              -> [success |-> TRUE, error_message |-> None]

\* The (success, error_message) pair a sender returns: each sender catches
\* what its body raises and returns (False, str(e)).
SenderReturn(channel, outcome) ==
  CASE outcome = "ok"     -> [success |-> TRUE, error_message |-> None]
    [] outcome = "noaddr" -> [success |-> FALSE,
                              error_message |-> NoAddressMessage(channel)]
    [] outcome = "raise"  -> [success |-> FALSE,
                              error_message |-> ExceptionText(channel)]
    [] OTHER              -> [success |-> FALSE,
                              error_message |-> TransportError(channel)]

\* Who called _attempt_delivery: submit, a deferred retry, or the fallback loop.
Caller(base, fbs) == IF fbs = <<>> THEN base ELSE "fallback"

FailedFrom(fbs) == IF fbs = <<>> THEN None ELSE fbs[Len(fbs)].failed

\* The most sender calls one atomic step can make: the resumed attempt and
\* one per fallback channel.
MaxSendsPerStep == 1 + Len(fallback_channels["telegram"])

\* What the network call of a sender does: it reports success, it reports
\* failure, or it raises.
CallResults == {"ok", "fail", "raise"}

\* The sender calls that have raised so far.
RECURSIVE Raised(_, _)
Raised(L, i) ==
  IF i = 0 THEN 0
  ELSE Raised(L, i - 1) +
       Cardinality({j \in 1..Len(L[i]) : L[i][j].outcome = "raise"})

Triples(S) == {<<a, b, c>> : a \in S, b \in S, c \in S}

\* The results of the network calls of one step, in the order they are made,
\* when every call reports its result.
Outcomes == Triples(CallResults \ {"raise"})

\* The same when a call may raise; at most MaxRaises calls raise in one
\* behaviour.
OutcomesOrRaise ==
  LET left == MaxRaises - Raised(log, Len(log))
  IN {o \in Triples(IF left > 0 THEN CallResults ELSE CallResults \ {"raise"}) :
        Cardinality({j \in 1..3 : o[j] = "raise"}) <= left}

\* The engine's mutable state, threaded through the handlers of one step.
Machine ==
  [q |-> delivery_queue, req |-> requests, tm |-> timers, inf |-> inflight,
   lg |-> log, res |-> submit_result, fb |-> fallbacks]

Apply(m) ==
  /\ delivery_queue' = m.q
  /\ requests' = m.req
  /\ timers' = m.tm
  /\ inflight' = m.inf
  /\ log' = m.lg
  /\ submit_result' = m.res
  /\ fallbacks' = m.fb

\* ----------------------------------------------------------- handlers
RECURSIVE _attempt_delivery(_, _, _, _, _, _)
RECURSIVE _send_telegram_notification(_, _, _, _, _, _)
RECURSIVE AttemptResult(_, _, _, _, _, _, _)
RECURSIVE _handle_delivery_failure(_, _, _, _, _, _)
RECURSIVE _try_fallback_channels(_, _, _, _, _, _, _)
RECURSIVE ReturnToCaller(_, _, _, _, _, _)

\* _attempt_delivery has returned `success` to its caller: submit returns the
\* record, a deferred retry ends, the fallback loop returns on success and goes
\* on with its next channel otherwise.
ReturnToCaller(m, nid, base, fbs, success, outs) ==
  IF fbs = <<>>
  THEN IF base = "submit"
       THEN [m EXCEPT !.res[nid] = <<m.q[nid]>>]
       ELSE m
  ELSE LET top == fbs[Len(fbs)]
           rest == SubSeq(fbs, 1, Len(fbs) - 1)
       IN IF success
          THEN ReturnToCaller(m, nid, base, rest, FALSE, outs)
          ELSE _try_fallback_channels(m, nid, top.failed, top.idx + 1,
                                      base, rest, outs)

\* The fallback loop of _try_fallback_channels from its i-th channel on.
_try_fallback_channels(m, nid, failed_channel, i, base, fbs, outs) ==
  LET list == fallback_channels[failed_channel]
  IN IF i > Len(list)
     THEN ReturnToCaller([m EXCEPT !.q[nid].status = "failed"],
                         nid, base, fbs, FALSE, outs)
     ELSE IF _has_contact_info_for_channel(m.req[nid].contact, list[i])
          THEN _attempt_delivery(
                 [m EXCEPT !.q[nid].attempts = 0, !.q[nid].channel = list[i]],
                 nid, list[i], base,
                 Append(fbs, [failed |-> failed_channel, idx |-> i]), outs)
          ELSE _try_fallback_channels(m, nid, failed_channel, i + 1,
                                      base, fbs, outs)

\* Mutant: every failure goes to fallback resolution at once.
FallbackAtOnce(m, nid, failed_channel, base, fbs, outs) ==
  _try_fallback_channels(
    [m EXCEPT !.fb[nid] = Append(@, failed_channel)],
    nid, failed_channel, 1, base, fbs, outs)

\* Mutant: a failure at the attempt limit arms one more same-channel retry.
RetryAtLimit(m, nid, failed_channel, base, fbs, outs) ==
  IF m.q[nid].attempts <= m.q[nid].max_attempts
  THEN LET retry_delay == RetryDelay(m.q[nid].attempts)
           task == [nid |-> nid, channel |-> failed_channel,
                    delay |-> retry_delay, remaining |-> retry_delay,
                    before_stop |-> FALSE]
       IN ReturnToCaller(
            [m EXCEPT !.q[nid].status = "retrying",
                      !.tm = @ (+) SetToBag({task})],
            nid, base, fbs, FALSE, outs)
  ELSE _try_fallback_channels(
         [m EXCEPT !.fb[nid] = Append(@, failed_channel)],
         nid, failed_channel, 1, base, fbs, outs)

_handle_delivery_failure(m, nid, failed_channel, base, fbs, outs) ==
  IF m.q[nid].attempts < m.q[nid].max_attempts
  THEN LET retry_delay == RetryDelay(m.q[nid].attempts)
           task == [nid |-> nid, channel |-> failed_channel,
                    delay |-> retry_delay, remaining |-> retry_delay,
                    before_stop |-> FALSE]
       IN ReturnToCaller(
            [m EXCEPT !.q[nid].status = "retrying",
                      !.tm = @ (+) SetToBag({task})],
            nid, base, fbs, FALSE, outs)
  ELSE _try_fallback_channels(
         [m EXCEPT !.fb[nid] = Append(@, failed_channel)],
         nid, failed_channel, 1, base, fbs, outs)

\* The sender has returned (lines 117-135 of _attempt_delivery).
AttemptResult(m, nid, channel, base, fbs, outcome, outs) ==
  LET entry == [channel |-> channel, outcome |-> outcome,
                caller |-> Caller(base, fbs), from |-> FailedFrom(fbs)]
      m1 == [m EXCEPT !.lg[nid] = Append(@, entry)]
      returned == SenderReturn(channel, outcome)
  IN IF returned.success
     THEN ReturnToCaller(
            [m1 EXCEPT !.q[nid].status = "sent",
                       !.q[nid].delivery_confirmation =
                          <<[channel |-> channel,
                             message |-> "Notification delivered successfully"]>>],
            nid, base, fbs, TRUE, outs)
     ELSE _handle_delivery_failure(
            [m1 EXCEPT !.q[nid].error_message = returned.error_message],
            nid, channel, base, fbs, outs)

\* Mutant: the chat sender goes on with the next chunk whatever the result of
\* the chunk it has sent.
SendsEveryChunk(m, nid, base, fbs, i, outs) ==
  IF "telegram" \notin m.req[nid].contact
  THEN AttemptResult(m, nid, "telegram", base, fbs, "noaddr", outs)
  ELSE IF i < m.req[nid].parts
       THEN [m EXCEPT !.inf = @ \cup
               {[nid |-> nid, channel |-> "telegram", base |-> base,
                 fbs |-> fbs, next |-> i + 1]}]
       ELSE AttemptResult(m, nid, "telegram", base, fbs, Head(outs),
                          Tail(outs))

\* The chat sender from its i-th chunk on: it stops at the first chunk that
\* fails and sleeps between two chunks.
_send_telegram_notification(m, nid, base, fbs, i, outs) ==
  IF "telegram" \notin m.req[nid].contact
  THEN AttemptResult(m, nid, "telegram", base, fbs, "noaddr", outs)
  ELSE IF Head(outs) # "ok"
       THEN AttemptResult(m, nid, "telegram", base, fbs, Head(outs),
                          Tail(outs))
       ELSE IF i < m.req[nid].parts
            THEN [m EXCEPT !.inf = @ \cup
                    {[nid |-> nid, channel |-> "telegram", base |-> base,
                      fbs |-> fbs, next |-> i + 1]}]
            ELSE AttemptResult(m, nid, "telegram", base, fbs, "ok", Tail(outs))

\* The email, messaging and SMS senders: one blocking call, no suspension.
SyncSenderOutcome(contact, channel, result) ==
  IF channel = "sms" \/ channel \notin contact THEN "noaddr"
  ELSE result

\* Mutant: the attempt is not counted.
AttemptNotCounted(m, nid, channel, base, fbs, outs) ==
  LET m1 == [m EXCEPT !.q[nid].status = "sending",
                      !.q[nid].since_attempt = 0]
  IN IF channel = "telegram"
     THEN _send_telegram_notification(m1, nid, base, fbs, 1, outs)
     ELSE AttemptResult(m1, nid, channel, base, fbs,
            SyncSenderOutcome(m1.req[nid].contact, channel, Head(outs)),
            Tail(outs))

_attempt_delivery(m, nid, channel, base, fbs, outs) ==
  LET m1 == [m EXCEPT !.q[nid].status = "sending",
                      !.q[nid].attempts = @ + 1,
                      !.q[nid].since_attempt = 0]
  IN IF channel = "telegram"
     THEN _send_telegram_notification(m1, nid, base, fbs, 1, outs)
     ELSE AttemptResult(m1, nid, channel, base, fbs,
            SyncSenderOutcome(m1.req[nid].contact, channel, Head(outs)),
            Tail(outs))

\* ------------------------------------------------------------ actions
EngineInit ==
  /\ delivery_queue = <<>>
  /\ requests = <<>>
  /\ timers = EmptyBag
  /\ inflight = {}
  /\ retry_task = [running |-> FALSE, sleep |-> 0, tasks |-> 0]
  /\ next_id = 0
  /\ log = <<>>
  /\ submit_result = <<>>
  /\ manual_retries = <<>>
  /\ fallbacks = <<>>
  /\ retry_responses = <<>>

\* The service after construction: no template has been formatted.
Init ==
  /\ EngineInit
  /\ template = None
  /\ message_parts = <<>>

\* Mutant: a submission takes the id handed out last.
LastId == Max(1, next_id)

\* The id of a submission: uuid4() is a value no record has.
FreshId == next_id + 1

\* send_enhanced_notification, up to its first suspension or its return, with
\* the results of its network calls drawn from O, in a service that takes up to
\* limit notifications.
SubmitWithin(limit, O) ==
  \E r \in Requests, outs \in O :
    /\ next_id < limit
    /\ LET nid == FreshId
           m0 == [Machine EXCEPT
                    !.q = (nid :> NewStatus(r.primary)) @@ @,
                    !.req = Append(@, r),
                    !.lg = Append(@, <<>>),
                    !.res = Append(@, <<>>),
                    !.fb = Append(@, <<>>)]
       IN /\ Apply(_attempt_delivery(m0, nid, r.primary, "submit", <<>>, outs))
          /\ next_id' = next_id + 1
          /\ manual_retries' = Append(manual_retries, 0)
    /\ UNCHANGED <<retry_task, retry_responses, template, message_parts>>

SubmitWith(O) == SubmitWithin(MaxNotifications, O)

Submit == SubmitWith(Outcomes)

\* Mutant: the deferred retry is skipped only for a delivered record.
RetryUnlessDelivered(m, t, outs) ==
  IF t.nid \in DOMAIN m.q /\ m.q[t.nid].status # "sent"
  THEN _attempt_delivery(m, t.nid, t.channel, "timer", <<>>, outs)
  ELSE m

\* Mutant: the deferred retry does not look at the record's state.
RetryWhateverState(m, t, outs) ==
  IF t.nid \in DOMAIN m.q
  THEN _attempt_delivery(m, t.nid, t.channel, "timer", <<>>, outs)
  ELSE m

\* _schedule_retry after its asyncio.sleep(delay): the retry is made only for a
\* record that is still in the store and still retrying.
_schedule_retry(m, t, outs) ==
  IF t.nid \in DOMAIN m.q /\ m.q[t.nid].status = "retrying"
  THEN _attempt_delivery(m, t.nid, t.channel, "timer", <<>>, outs)
  ELSE m

RetryFiresWith(O) ==
  \E t \in BagToSet(timers), outs \in O :
    /\ t.remaining = 0
    /\ Apply(_schedule_retry([Machine EXCEPT !.tm = @ (-) SetToBag({t})],
                             t, outs))
    /\ UNCHANGED <<retry_task, next_id, manual_retries, retry_responses,
                   template, message_parts>>

RetryFires == RetryFiresWith(Outcomes)

\* The chat sender after its asyncio.sleep(0.5): the next chunk is sent.
ResumeSendWith(O) ==
  \E t \in inflight, outs \in O :
    /\ Apply(_send_telegram_notification(
               [Machine EXCEPT !.inf = @ \ {t}],
               t.nid, t.base, t.fbs, t.next, outs))
    /\ UNCHANGED <<retry_task, next_id, manual_retries, retry_responses,
                   template, message_parts>>

ResumeSend == ResumeSendWith(Outcomes)

\* Mutant: the sweep finds no retrying record overdue.
NeverOverdue(d) == FALSE

\* One pass of _process_retry_queue: overdue retrying records, then the purge.
Overdue(d) ==
  /\ d.status = "retrying"
  /\ d.since_attempt # NoTime
  /\ d.since_attempt >= RetryDelay(d.attempts)

ProcessRetries(q) ==
  [n \in DOMAIN q |->
     IF Overdue(q[n]) THEN [q[n] EXCEPT !.status = "failed"] ELSE q[n]]

\* last_attempt < current_time - timedelta(hours=24)
Expired(d) ==
  /\ d.status \in {"sent", "failed"}
  /\ d.since_attempt # NoTime
  /\ d.since_attempt > retention_seconds

CleanUp(q) ==
  [n \in {k \in DOMAIN q : ~Expired(q[k])} |-> q[n]]

_process_retry_queue(q) == CleanUp(ProcessRetries(q))

SweepPass ==
  /\ retry_task.running
  /\ retry_task.sleep = 0
  /\ delivery_queue' = _process_retry_queue(delivery_queue)
  /\ retry_task' = [retry_task EXCEPT !.sleep = sweep_interval]
  /\ UNCHANGED <<requests, timers, inflight, next_id, log,
                 submit_result, manual_retries, fallbacks, retry_responses,
                 template, message_parts>>

\* Mutant: start creates a sweep task whether or not the engine has one.
StartAnyway(task) ==
  [running |-> TRUE, sleep |-> 0, tasks |-> task.tasks + 1]

\* start creates the sweep task if the engine's handle is None and does
\* nothing otherwise.  running is the handle (not None), tasks the number of
\* sweep tasks the event loop runs.
StartTask(task) ==
  IF ~task.running
  THEN [running |-> TRUE, sleep |-> 0, tasks |-> task.tasks + 1]
  ELSE task

start_background_processor ==
  /\ retry_task' = StartTask(retry_task)
  /\ UNCHANGED <<delivery_queue, requests, timers, inflight, next_id,
                 log, submit_result, manual_retries, fallbacks,
                 retry_responses, template, message_parts>>

\* stop cancels the sweep task and nothing else: the tasks of _schedule_retry
\* stay scheduled.  before_stop records which of them a stop has seen.
SeenByStop(B) ==
  LET S == BagToSet(B)
      Mark(t) == [t EXCEPT !.before_stop = TRUE]
  IN [u \in {Mark(t) : t \in S} |->
        (IF u \in S THEN CopiesIn(u, B) ELSE 0) +
        (IF [u EXCEPT !.before_stop = FALSE] \in S
         THEN CopiesIn([u EXCEPT !.before_stop = FALSE], B) ELSE 0)]

stop_background_processor ==
  /\ retry_task.running
  /\ retry_task' = [running |-> FALSE, sleep |-> 0,
                    tasks |-> retry_task.tasks - 1]
  /\ timers' = SeenByStop(timers)
  /\ UNCHANGED <<delivery_queue, requests, inflight, next_id,
                 log, submit_result, manual_retries, fallbacks,
                 retry_responses, template, message_parts>>

\* The retry endpoint: 404 for an id the store does not hold, 400 for a record
\* that is neither failed nor retrying, and the reset otherwise.
NotificationIds == 1..(MaxNotifications + 1)

\* Mutant: the retry endpoint accepts a record in any state.
AnyStateRetryable(d) ==
  d.status \in {"pending", "sending", "retrying", "sent", "failed"}

Retryable(d) == d.status \in {"failed", "retrying"}

\* Mutant: the retry endpoint does not reset attempts.
ResetKeepsAttempts(d) ==
  [d EXCEPT !.status = "retrying", !.error_message = None]

ResetForRetry(d) ==
  [d EXCEPT !.status = "retrying", !.attempts = 0, !.error_message = None]

ManualRetriesUsed == Len(retry_responses)

Respond(nid, code) ==
  retry_responses' = Append(retry_responses, [nid |-> nid, code |-> code])

retry_enhanced_notification ==
  \E nid \in NotificationIds :
    /\ ManualRetriesUsed < MaxManualRetries
    /\ IF nid \notin DOMAIN delivery_queue
       THEN /\ Respond(nid, 404)
            /\ UNCHANGED <<delivery_queue, manual_retries>>
       ELSE IF ~Retryable(delivery_queue[nid])
            THEN /\ Respond(nid, 400)
                 /\ UNCHANGED <<delivery_queue, manual_retries>>
            ELSE /\ delivery_queue' =
                      [delivery_queue EXCEPT ![nid] = ResetForRetry(@)]
                 /\ manual_retries' = [manual_retries EXCEPT ![nid] = @ + 1]
                 /\ Respond(nid, 200)
    /\ UNCHANGED <<requests, timers, inflight, retry_task, next_id,
                   log, submit_result, fallbacks, template, message_parts>>

\* get_delivery_stats.  A rate is the quotient sent / total * 100 kept as a
\* fraction.
Fraction(n, d) == [num |-> n, den |-> d]

SameFraction(a, b) == a.num * b.den = b.num * a.den

WithStatus(S) ==
  Cardinality({n \in DOMAIN delivery_queue : delivery_queue[n].status \in S})

\* Mutant: retrying records are not counted as pending.
StatsWithoutRetrying ==
  LET total == Cardinality(DOMAIN delivery_queue)
      sent == WithStatus({"sent"})
      failed == WithStatus({"failed"})
      pending == WithStatus({"pending", "sending"})
  IN [total_notifications |-> total, sent |-> sent, failed |-> failed,
      pending |-> pending,
      success_rate |-> IF total > 0 THEN Fraction(sent * 100, total)
                       ELSE Fraction(0, 1),
      failure_rate |-> IF total > 0 THEN Fraction(failed * 100, total)
                       ELSE Fraction(0, 1)]

get_delivery_stats ==
  LET total == Cardinality(DOMAIN delivery_queue)
      sent == WithStatus({"sent"})
      failed == WithStatus({"failed"})
      pending == WithStatus({"pending", "sending", "retrying"})
  IN [total_notifications |-> total, sent |-> sent, failed |-> failed,
      pending |-> pending,
      success_rate |-> IF total > 0 THEN Fraction(sent * 100, total)
                       ELSE Fraction(0, 1),
      failure_rate |-> IF total > 0 THEN Fraction(failed * 100, total)
                       ELSE Fraction(0, 1)]

\* Time passes: every clock moves by the same step.
SleepOn(t, d) == [t EXCEPT !.remaining = Max(0, @ - d)]

TimersAfter(B, d) ==
  [u \in {SleepOn(t, d) : t \in BagToSet(B)} |->
     LET from == {t \in BagToSet(B) : SleepOn(t, d) = u}
         RECURSIVE Copies(_)
         Copies(S) == IF S = {} THEN 0
                      ELSE LET t == CHOOSE x \in S : TRUE
                           IN CopiesIn(t, B) + Copies(S \ {t})
     IN Copies(from)]

\* d seconds pass.
TickBy(d) ==
  /\ delivery_queue' =
       [n \in DOMAIN delivery_queue |->
          [delivery_queue[n] EXCEPT !.since_attempt = Elapse(@, d)]]
  /\ timers' = TimersAfter(timers, d)
  /\ retry_task' = [retry_task EXCEPT !.sleep = Max(0, @ - d)]
  /\ UNCHANGED <<requests, inflight, next_id, log, submit_result,
                 manual_retries, fallbacks, retry_responses,
                 template, message_parts>>

Tick == \E d \in TickSteps : TickBy(d)

Next ==
  \/ Submit
  \/ RetryFires
  \/ ResumeSend
  \/ SweepPass
  \/ start_background_processor
  \/ stop_background_processor
  \/ retry_enhanced_notification
  \/ Tick

Spec == Init /\ [][Next]_vars

\* The attempts, retries and fallbacks of the engine when a sender call may
\* raise.
NextRaise ==
  \/ SubmitWith(OutcomesOrRaise)
  \/ RetryFiresWith(OutcomesOrRaise)
  \/ ResumeSendWith(OutcomesOrRaise)
  \/ Tick

SpecRaise == Init /\ [][NextRaise]_vars

\* ------------------------------------------------- message formatter
\* A text is a sequence of runs [ch, n]: n > 0 characters of the class ch, and
\* two runs next to each other differ in ch.  The characters of the title are
\* the class TitleChar, those section i wrote itself the class i; Newline and
\* Space are the whitespace str.strip removes.
max_message_length == 4096

TitleChar == 0

Newline == -1

Space == -2

Whitespace == {Newline, Space}

Run(ch, n) == IF n > 0 THEN <<[ch |-> ch, n |-> n]>> ELSE <<>>

\* a + b
Concat(a, b) ==
  IF a # <<>> /\ b # <<>> /\ a[Len(a)].ch = Head(b).ch
  THEN SubSeq(a, 1, Len(a) - 1)
         \o Run(Head(b).ch, a[Len(a)].n + Head(b).n) \o Tail(b)
  ELSE a \o b

RECURSIVE len(_)
len(t) == IF t = <<>> THEN 0 ELSE Head(t).n + len(Tail(t))

RECURSIVE lstrip(_)
lstrip(t) ==
  IF t # <<>> /\ Head(t).ch \in Whitespace THEN lstrip(Tail(t)) ELSE t

RECURSIVE rstrip(_)
rstrip(t) ==
  IF t # <<>> /\ t[Len(t)].ch \in Whitespace
  THEN rstrip(SubSeq(t, 1, Len(t) - 1))
  ELSE t

\* str.strip()
strip(t) == lstrip(rstrip(t))

\* "\n\n"
Separator == Run(Newline, 2)

\* template.title: "🚀 StateX Business Analysis Complete"
Title == Run(TitleChar, 35)

\* The footer section: a fixed text of 169 characters.
FooterLength == 169

\* The sections format_business_offer builds: each starts with its own heading
\* and runs on for as long as the texts of the request make it; a section that
\* ends with a text of the request ends with that text's whitespace.  The header
\* comes first and ends with its rule, the footer comes last.
SectionLengths == {1000, 2000, 4057, 4058, 4096, 4097}

TrailingSpaces == {0, 1}

Section(i, length, trail) ==
  [type |-> i, content |-> Concat(Run(i, length), Run(Space, trail))]

Bodies(k) ==
  {b \in [1..k -> SectionLengths \X TrailingSpaces] : b[1][2] = 0}

format_business_offer(b) ==
  [title |-> Title,
   sections |->
     [i \in 1..(Len(b) + 1) |->
        IF i <= Len(b) THEN Section(i, b[i][1], b[i][2])
        ELSE Section(i, FooterLength, 0)]]

Templates ==
  UNION {{format_business_offer(b) : b \in Bodies(k)} : k \in 1..MaxSections}

\* full_message: the title and every section, each followed by "\n\n".
RECURSIVE FullMessage(_, _)
FullMessage(message, sections) ==
  IF sections = <<>> THEN message
  ELSE FullMessage(Concat(message, Concat(Head(sections).content, Separator)),
                   Tail(sections))

RECURSIVE SplitMessage(_, _, _)
\* Mutant: a chunk that is full is closed and the section that did not fit is
\* not carried into the next one.
SplitDroppingSection(messages, current_message, sections) ==
  IF sections = <<>>
  THEN IF strip(current_message) # <<>>
       THEN Append(messages, strip(current_message))
       ELSE messages
  ELSE LET section_content == Concat(Head(sections).content, Separator)
       IN IF len(Concat(current_message, section_content)) > max_message_length
          THEN SplitMessage(Append(messages, strip(current_message)),
                            <<>>, Tail(sections))
          ELSE SplitMessage(messages,
                            Concat(current_message, section_content),
                            Tail(sections))

\* The loop over the sections that splits the message, and the rest appended
\* after it.
SplitMessage(messages, current_message, sections) ==
  IF sections = <<>>
  THEN IF strip(current_message) # <<>>
       THEN Append(messages, strip(current_message))
       ELSE messages
  ELSE LET section_content == Concat(Head(sections).content, Separator)
       IN IF len(Concat(current_message, section_content)) > max_message_length
          THEN SplitMessage(Append(messages, strip(current_message)),
                            section_content, Tail(sections))
          ELSE SplitMessage(messages,
                            Concat(current_message, section_content),
                            Tail(sections))

\* Mutant: the message is never split.
FormatInOneMessage(tpl) ==
  <<strip(FullMessage(Concat(tpl.title, Separator), tpl.sections))>>

format_message_parts(tpl) ==
  LET full_message == FullMessage(Concat(tpl.title, Separator), tpl.sections)
  IN IF len(full_message) <= max_message_length
     THEN <<strip(full_message)>>
     ELSE SplitMessage(<<>>, Concat(tpl.title, Separator), tpl.sections)

\* A template is built and split into the parts of a chat message.
InitFormat ==
  /\ EngineInit
  /\ template \in Templates
  /\ message_parts = <<>>

Paginate ==
  /\ message_parts = <<>>
  /\ message_parts' = format_message_parts(template)
  /\ UNCHANGED <<delivery_queue, requests, timers, inflight, retry_task,
                 next_id, log, submit_result, manual_retries, fallbacks,
                 retry_responses, template>>

NextFormat == Paginate

SpecFormat == InitFormat /\ [][NextFormat]_vars

\* ------------------------------------------------- reading the history
Submitted == 1..next_id

Primary(n) == requests[n].primary

Contact(n) == requests[n].contact

Failed(e) == e.outcome # "ok"

\* The fallback channels of f the request of n has an address for, in order.
Reachable(n, f) ==
  SelectSeq(fallback_channels[f], LAMBDA c : c \in Contact(n))

\* The number of consecutive sender calls on the channel of L[i], ending at i.
RECURSIVE Consecutive(_, _)
Consecutive(L, i) ==
  IF i = 1 \/ L[i - 1].channel # L[i].channel THEN 1
  ELSE 1 + Consecutive(L, i - 1)

\* The last sender call before i that the fallback loop did not make.
RECURSIVE Trigger(_, _)
Trigger(L, i) ==
  IF i = 0 \/ L[i].caller # "fallback" THEN i ELSE Trigger(L, i - 1)

\* ---------------------------------------------------------------- C1
\* C1: when submit returns and every sender call of the notification
\* succeeded (the primary channel having contact data), the returned record
\* is Delivered with attempts = 1 on the primary channel, after exactly one
\* sender call.
C1_SubmitDelivers ==
  \A n \in Submitted :
    (/\ submit_result[n] # <<>>
     /\ Primary(n) \in Contact(n)
     /\ \A i \in 1..Len(log[n]) : log[n][i].outcome = "ok")
    => /\ submit_result[n][1].status = "sent"
       /\ submit_result[n][1].attempts = 1
       /\ submit_result[n][1].channel = Primary(n)
       /\ Len(log[n]) = 1

\* A chat message of two chunks was delivered by submit.
C1_Witness ==
  \E n \in Submitted :
    /\ submit_result[n] # <<>>
    /\ submit_result[n][1].status = "sent"
    /\ requests[n].parts = 2
    /\ Primary(n) = "telegram"
    /\ Len(log[n]) = 1

\* ---------------------------------------------------------------- C2
\* C2: a record whose request has contact data for no fallback channel, whose
\* sender calls all failed and that was never retried manually is Exhausted
\* only after exactly attempt_limit (3) sender calls, all on the primary
\* channel.
C2_ExhaustedAfterLimit ==
  \A n \in DOMAIN delivery_queue :
    (/\ Contact(n) = {Primary(n)}
     /\ manual_retries[n] = 0
     /\ \A i \in 1..Len(log[n]) : Failed(log[n][i])
     /\ delivery_queue[n].status = "failed")
    => /\ Len(log[n]) = max_retries
       /\ \A i \in 1..Len(log[n]) : log[n][i].channel = Primary(n)

\* ---------------------------------------------------------------- C3
\* C3: a record, never retried manually, whose primary-channel sender failed
\* on its first k calls (k = 1 or 2) and succeeds afterwards, and that has come
\* to rest in Delivered or Exhausted, is Delivered with attempts = k+1 on the
\* primary channel.
C3_RetryThenDelivered ==
  \A n \in DOMAIN delivery_queue :
    LET L == log[n]
        fails == {i \in 1..Len(L) : Failed(L[i])}
    IN (/\ manual_retries[n] = 0
        /\ Primary(n) \in Contact(n)
        /\ delivery_queue[n].status \in {"sent", "failed"}
        /\ Cardinality(fails) \in {1, 2}
        /\ \A i \in 1..Len(L) : L[i].channel = Primary(n)
        /\ \A i \in 1..Len(L) : i \in fails <=> i <= Cardinality(fails))
       => /\ delivery_queue[n].status = "sent"
          /\ delivery_queue[n].attempts = Cardinality(fails) + 1
          /\ delivery_queue[n].channel = Primary(n)
          /\ Len(L) = Cardinality(fails) + 1

\* ---------------------------------------------------------------- C4
\* C4: a record, never retried manually, with contact data for the primary
\* channel and for its first fallback channel, whose primary sender calls all
\* failed and whose fallback sender calls all succeeded, and that has come to
\* rest in Delivered or Exhausted, is Delivered on that fallback channel with
\* attempts = 1 after exactly 3 failed calls on the primary channel and 1 call
\* on the fallback channel.
C4_FallbackDelivers ==
  \A n \in DOMAIN delivery_queue :
    LET L == log[n]
        first == fallback_channels[Primary(n)][1]
    IN (/\ manual_retries[n] = 0
        /\ {Primary(n), first} \subseteq Contact(n)
        /\ delivery_queue[n].status \in {"sent", "failed"}
        /\ \A i \in 1..Len(L) :
              \/ L[i].channel = Primary(n) /\ L[i].outcome = "fail"
              \/ L[i].channel = first /\ L[i].outcome = "ok")
       => /\ delivery_queue[n].status = "sent"
          /\ delivery_queue[n].channel = first
          /\ delivery_queue[n].attempts = 1
          /\ Len(L) = max_retries + 1
          /\ \A i \in 1..max_retries : L[i].channel = Primary(n)
          /\ L[Len(L)].channel = first

\* ---------------------------------------------------------------- C5
\* C5: when the first sender call the fallback loop makes on a fallback
\* channel fails, the step leaves the record Retrying on that channel with a
\* retry timer armed for it: the engine neither moves to the next fallback
\* channel nor sets Exhausted before that channel has had attempt_limit calls.
C5_FallbackChannelRetried ==
  [][\A n \in DOMAIN delivery_queue :
       \A i \in (Len(log[n]) + 1)..Len(log'[n]) :
         (log'[n][i].caller = "fallback" /\ Failed(log'[n][i]))
         => /\ i = Len(log'[n])
            /\ n \in DOMAIN delivery_queue'
            /\ delivery_queue'[n].status = "retrying"
            /\ delivery_queue'[n].channel = log'[n][i].channel]_vars

\* ---------------------------------------------------------------- C6
\* The timers of notification n on channel c with backoff delay d that have
\* just been armed.
Armed(n, c, d) ==
  [nid |-> n, channel |-> c, delay |-> d, remaining |-> d,
   before_stop |-> FALSE]

LogBefore(n) == IF n \in DOMAIN log THEN log[n] ELSE <<>>

FallbacksBefore(n) == IF n \in DOMAIN fallbacks THEN fallbacks[n] ELSE <<>>

\* C6: for a record that was never retried manually, the step in which the
\* k-th consecutive sender call on a channel fails arms one retry timer of 30s
\* for that channel when k = 1, one of 120s when k = 2, and when k = 3 arms no
\* timer for that channel and runs fallback resolution for it; there is no 4th
\* consecutive sender call on one channel.
C6_BackoffThenFallback ==
  [][\A n \in DOMAIN log' :
       manual_retries'[n] = 0 =>
         \A i \in (Len(LogBefore(n)) + 1)..Len(log'[n]) :
           LET L == log'[n]
               c == L[i].channel
               k == Consecutive(L, i)
           IN /\ k <= max_retries
              /\ Failed(L[i]) =>
                   /\ k = 1 =>
                        /\ CopiesIn(Armed(n, c, 30), timers') =
                             CopiesIn(Armed(n, c, 30), timers) + 1
                        /\ CopiesIn(Armed(n, c, 120), timers') = 0
                   /\ k = 2 =>
                        /\ CopiesIn(Armed(n, c, 120), timers') =
                             CopiesIn(Armed(n, c, 120), timers) + 1
                        /\ CopiesIn(Armed(n, c, 30), timers') = 0
                   /\ k = 3 =>
                        /\ \A t \in BagToSet(timers') :
                             (t.nid = n /\ t.channel = c) =>
                               CopiesIn(t, timers') <= CopiesIn(t, timers)
                        /\ fallbacks'[n] = Append(FallbacksBefore(n), c)]_vars

\* The third consecutive call on the primary channel has failed, after retries
\* armed by the first and the second failure, and fallback resolution has run.
C6_Witness ==
  \E n \in Submitted :
    /\ manual_retries[n] = 0
    /\ Len(log[n]) >= max_retries
    /\ \A i \in 1..max_retries :
         log[n][i].channel = Primary(n) /\ log[n][i].outcome = "fail"
    /\ fallbacks[n] = <<Primary(n)>>

\* ---------------------------------------------------------------- C7
\* The sender calls of the fallback loop follow the priority list of the
\* channel that failed, skipping the channels without contact data.
FallbackOrder ==
  \A n \in Submitted :
    LET L == log[n]
    IN \A i \in 1..Len(L) :
         /\ L[i].outcome # "noaddr" => L[i].channel \in Contact(n)
         /\ L[i].caller = "fallback" =>
              LET s == Trigger(L, i - 1)
                  R == IF s = 0 THEN <<>> ELSE Reachable(n, L[s].channel)
              IN /\ s >= 1
                 /\ L[i].channel \in Contact(n)
                 /\ L[i].outcome # "noaddr"
                 /\ L[i].from = L[s].channel
                 /\ i - s <= Len(R)
                 /\ L[i].channel = R[i - s]
                 /\ \A j \in (s + 1)..(i - 1) : Failed(L[j])

\* Fallback resolution for a channel starts with the first channel of its
\* priority list the request has contact data for, and with none sets failed.
FallbackStarts ==
  \A n \in DOMAIN fallbacks' :
    Len(fallbacks'[n]) > Len(FallbacksBefore(n)) =>
      LET f == fallbacks'[n][Len(fallbacks'[n])]
          R == SelectSeq(fallback_channels[f],
                         LAMBDA c : c \in requests'[n].contact)
          new == (Len(LogBefore(n)) + 1)..Len(log'[n])
      IN IF R = <<>>
         THEN /\ delivery_queue'[n].status = "failed"
              /\ \A i \in new : log'[n][i].caller # "fallback"
         ELSE \/ \E i \in new : /\ log'[n][i].caller = "fallback"
                                /\ log'[n][i].channel = R[1]
                                /\ log'[n][i - 1].caller # "fallback"
              \/ \E t \in inflight' : /\ t.nid = n
                                      /\ t.channel = R[1]
                                      /\ t.fbs # <<>>

\* C7: fallback resolution attempts the fallback channels in the fixed
\* priority order of the failed channel and never sends on a channel the
\* request has no contact address for.
C7_FallbackOrder == [][FallbackOrder' /\ FallbackStarts]_vars

\* The chat channel failed for good, the request has contact data for chat
\* and email only: the one fallback call was made on email.
C7_Witness ==
  \E n \in Submitted :
    /\ Primary(n) = "telegram"
    /\ Contact(n) = {"telegram", "email"}
    /\ fallbacks[n] = <<"telegram">>
    /\ Len(log[n]) = max_retries + 1
    /\ log[n][max_retries + 1].channel = "email"
    /\ log[n][max_retries + 1].outcome = "fail"
    /\ delivery_queue[n].status = "failed"

\* ---------------------------------------------------------------- C8
\* C8: in every reachable state attempts <= attempt_limit, a Retrying record
\* has attempts < attempt_limit, and every armed retry timer carries the
\* backoff delay of a failure below the limit: a failure at the limit armed
\* none.
C8_AttemptsBounded ==
  /\ \A n \in DOMAIN delivery_queue :
       /\ delivery_queue[n].attempts <= delivery_queue[n].max_attempts
       /\ delivery_queue[n].status = "retrying" =>
            delivery_queue[n].attempts < delivery_queue[n].max_attempts
  /\ \A t \in BagToSet(timers) :
       t.delay \in {RetryDelay(a) : a \in 1..(max_retries - 1)}

\* A manually retried record has since reached the attempt limit.
C8_Witness ==
  \E n \in DOMAIN delivery_queue :
    /\ manual_retries[n] > 0
    /\ delivery_queue[n].attempts = delivery_queue[n].max_attempts
    /\ fallbacks[n] # <<>>

\* ---------------------------------------------------------------- C9
\* The record without the clock reading kept in place of last_attempt.
Frozen(d) == [d EXCEPT !.since_attempt = 0]

InFlight(S, n) == {t \in S : t.nid = n}

\* C9: for a Delivered record no step makes a sender call or changes the
\* record; for an Exhausted record no step makes a sender call, and the record
\* changes only by a manual retry that sets it Retrying; either leaves the
\* store only by the purge of the sweep.  A retry timer that fires for such a
\* record makes no sender call.
C9_TerminalStays ==
  [][\A n \in DOMAIN delivery_queue :
       LET d == delivery_queue[n]
       IN d.status \in {"sent", "failed"} =>
            /\ log'[n] = log[n]
            /\ InFlight(inflight', n) = {}
            /\ \A t \in BagToSet(timers') :
                 t.nid = n =>
                   \/ t.remaining < t.delay
                   \/ t \in BagToSet(timers)
                   \/ [t EXCEPT !.before_stop = FALSE] \in BagToSet(timers)
            /\ IF n \in DOMAIN delivery_queue'
               THEN \/ Frozen(delivery_queue'[n]) = Frozen(d)
                    \/ /\ d.status = "failed"
                       /\ manual_retries'[n] = manual_retries[n] + 1
                       /\ delivery_queue'[n] = ResetForRetry(d)
               ELSE /\ Expired(d)
                    /\ retry_task.running
                    /\ retry_task'.sleep = sweep_interval]_vars

\* A record set failed by the fallback loop, never retried manually, whose
\* fallback retry timer has since fired.
C9_Witness ==
  \E n \in DOMAIN delivery_queue :
    /\ manual_retries[n] = 0
    /\ delivery_queue[n].status = "failed"
    /\ Len(log[n]) = max_retries + 1
    /\ log[n][Len(log[n])].caller = "fallback"
    /\ Failed(log[n][Len(log[n])])
    /\ \A t \in BagToSet(timers) : t.nid # n

\* --------------------------------------------------------------- C10
\* C10: a pass of the background sweep never moves a record from Retrying to
\* Exhausted.
C10_SweepNeverExhausts ==
  [][SweepPass =>
       \A n \in DOMAIN delivery_queue :
         ~(/\ delivery_queue[n].status = "retrying"
           /\ n \in DOMAIN delivery_queue'
           /\ delivery_queue'[n].status = "failed")]_vars

\* --------------------------------------------------------------- C11
\* Timers fire, suspended sends resume, time passes, and the sweep is started
\* and keeps making passes.
FairSpec ==
  /\ Spec
  /\ WF_vars(Tick)
  /\ SF_vars(RetryFires)
  /\ SF_vars(ResumeSend)
  /\ WF_vars(start_background_processor)
  /\ SF_vars(SweepPass)

\* The retry endpoint has reset the record and no attempt was started since.
Rearmed(n) ==
  /\ n \in DOMAIN delivery_queue
  /\ manual_retries[n] > 0
  /\ delivery_queue[n].status = "retrying"
  /\ delivery_queue[n].attempts = 0

\* An attempt was started for the record: _attempt_delivery has counted it.
Attempted(n) ==
  /\ n \in DOMAIN delivery_queue
  /\ delivery_queue[n].attempts > 0

\* No task of _schedule_retry is left for the record: it was Exhausted and its
\* timers have fired.
NoTimerLeft(n) == \A t \in BagToSet(timers) : t.nid # n

\* C11: after the retry endpoint has reset a record, a new channel attempt for
\* it eventually starts, when timers fire and the sweep keeps running.  Stated
\* for the records no earlier timer is left for, where only the retry endpoint
\* or the sweep can start the attempt.
C11_RetryLeadsToAttempt ==
  \A n \in 1..MaxNotifications :
    (Rearmed(n) /\ NoTimerLeft(n)) ~> Attempted(n)

\* --------------------------------------------------------------- C12
\* This step is a call of the retry endpoint for id n; Answer is its status
\* code.
Called(n) ==
  /\ Len(retry_responses') = Len(retry_responses) + 1
  /\ retry_responses'[Len(retry_responses')].nid = n

Answer == retry_responses'[Len(retry_responses')].code

\* C12: a call of the retry endpoint for a record that is failed or retrying
\* answers success and leaves the record retrying with attempts = 0 and no
\* error_message; its channel and its other fields are unchanged.
C12_RetryResets ==
  [][\A n \in DOMAIN delivery_queue :
       (Called(n) /\ delivery_queue[n].status \in {"failed", "retrying"})
       => /\ Answer = 200
          /\ n \in DOMAIN delivery_queue'
          /\ delivery_queue'[n].status = "retrying"
          /\ delivery_queue'[n].attempts = 0
          /\ delivery_queue'[n].error_message = None
          /\ delivery_queue'[n].channel = delivery_queue[n].channel
          /\ delivery_queue'[n] =
               [delivery_queue[n] EXCEPT !.status = "retrying",
                                         !.attempts = 0,
                                         !.error_message = None]]_vars

\* A record that fallback resolution had left failed on a fallback channel
\* has been reset by the retry endpoint.
C12_Witness ==
  \E n \in DOMAIN delivery_queue :
    /\ retry_responses # <<>>
    /\ retry_responses[Len(retry_responses)] = [nid |-> n, code |-> 200]
    /\ fallbacks[n] # <<>>
    /\ delivery_queue[n].channel # Primary(n)
    /\ delivery_queue[n].status = "retrying"
    /\ delivery_queue[n].attempts = 0
    /\ delivery_queue[n].error_message = None

\* --------------------------------------------------------------- C13
\* C13: a call of the retry endpoint for a record that is pending, sending or
\* sent answers 400, a call for an id the store does not hold answers 404, and
\* either call changes no record, arms no timer and starts no attempt.
C13_RetryRejected ==
  [][\A n \in NotificationIds :
       Called(n) =>
         /\ n \notin DOMAIN delivery_queue =>
              Answer = 404 /\ UNCHANGED <<delivery_queue, timers, inflight, log>>
         /\ (/\ n \in DOMAIN delivery_queue
             /\ delivery_queue[n].status \in {"pending", "sending", "sent"}) =>
              Answer = 400 /\ UNCHANGED <<delivery_queue, timers, inflight, log>>]_vars

\* The retry endpoint has refused a Delivered record.
C13_Witness ==
  \E n \in DOMAIN delivery_queue :
    /\ retry_responses # <<>>
    /\ retry_responses[Len(retry_responses)] = [nid |-> n, code |-> 400]
    /\ delivery_queue[n].status = "sent"

\* --------------------------------------------------------------- C14
\* C14: a notification submitted with a primary channel its request has no
\* contact address for makes no network send on that channel and its record,
\* if there is one, is never Retrying on that channel.
C14_NoContactRejected ==
  \A n \in Submitted :
    Primary(n) \notin Contact(n) =>
      /\ \A i \in 1..Len(log[n]) :
           log[n][i].channel = Primary(n) => log[n][i].outcome = "noaddr"
      /\ n \in DOMAIN delivery_queue =>
           ~(/\ delivery_queue[n].status = "retrying"
             /\ delivery_queue[n].channel = Primary(n))

\* --------------------------------------------------------------- C15
\* C15: while the background processor is stopped the sweep makes no pass, and
\* a retry timer that a stop has seen pending makes no attempt and changes no
\* record when it fires.
C15_StopCancelsTimers ==
  [][/\ ~retry_task.running => ~SweepPass
     /\ \A t \in BagToSet(timers) :
          (/\ t.before_stop
           /\ t.remaining = 0
           /\ (IF t \in BagToSet(timers') THEN CopiesIn(t, timers') ELSE 0)
                < CopiesIn(t, timers))
          => UNCHANGED <<delivery_queue, log, inflight>>]_vars

\* --------------------------------------------------------------- C16
\* C16: a record leaves the store only when it is Delivered or Exhausted and
\* its last attempt is older than the retention window, and a sweep pass
\* leaves no such record in the store.
C16_PurgeOnlyOldTerminal ==
  [][/\ \A n \in DOMAIN delivery_queue :
          n \notin DOMAIN delivery_queue' =>
            /\ delivery_queue[n].status \in {"sent", "failed"}
            /\ delivery_queue[n].since_attempt > retention_seconds
     /\ SweepPass =>
          \A n \in DOMAIN delivery_queue' : ~Expired(delivery_queue'[n])]_vars

\* --------------------------------------------------------------- C17
\* The results of one step with every raise replaced by a reported failure.
Unraise(o) == [j \in 1..Len(o) |-> IF o[j] = "raise" THEN "fail" ELSE o[j]]

Reported(text) ==
  IF \E c \in DeliveryChannel : text = ExceptionText(c)
  THEN TransportError(CHOOSE c \in DeliveryChannel : text = ExceptionText(c))
  ELSE text

ReportedRecord(d) == [d EXCEPT !.error_message = Reported(@)]

ReportedEntry(e) ==
  [e EXCEPT !.outcome = IF @ = "raise" THEN "fail" ELSE @]

\* The machine with the diagnostic of an exception read as that of a reported
\* failure.
AsReported(m) ==
  [m EXCEPT
     !.q = [n \in DOMAIN m.q |-> ReportedRecord(m.q[n])],
     !.lg = [n \in DOMAIN m.lg |->
               [i \in DOMAIN m.lg[n] |-> ReportedEntry(m.lg[n][i])]],
     !.res = [n \in DOMAIN m.res |->
                [i \in DOMAIN m.res[n] |-> ReportedRecord(m.res[n][i])]]]

SubmitMachine(r) ==
  [Machine EXCEPT !.q = ((next_id + 1) :> NewStatus(r.primary)) @@ @,
                  !.req = Append(@, r),
                  !.lg = Append(@, <<>>),
                  !.res = Append(@, <<>>),
                  !.fb = Append(@, <<>>)]

\* C17: from every reachable state, a step in which sender calls raise (a
\* retry, a resumed send, or a submit where one is still accepted) leaves the
\* same records, timers, fallbacks and suspended sends as the step in which
\* those calls report failure, up to the diagnostic; and a submit whose sender
\* raised has returned its record.
C17_RaiseIsFailure ==
  /\ \A outs \in Triples(CallResults) :
       /\ \A t \in BagToSet(timers) :
            LET m == [Machine EXCEPT !.tm = @ (-) SetToBag({t})]
            IN AsReported(_schedule_retry(m, t, outs)) =
                 AsReported(_schedule_retry(m, t, Unraise(outs)))
       /\ \A t \in inflight :
            LET m == [Machine EXCEPT !.inf = @ \ {t}]
            IN AsReported(_send_telegram_notification(
                            m, t.nid, t.base, t.fbs, t.next, outs)) =
                 AsReported(_send_telegram_notification(
                              m, t.nid, t.base, t.fbs, t.next, Unraise(outs)))
       /\ next_id < MaxNotifications =>
            \A r \in Requests :
              AsReported(_attempt_delivery(SubmitMachine(r), next_id + 1,
                                           r.primary, "submit", <<>>, outs)) =
                AsReported(_attempt_delivery(SubmitMachine(r), next_id + 1,
                                             r.primary, "submit", <<>>,
                                             Unraise(outs)))
  /\ \A n \in Submitted :
       \A i \in 1..Len(log[n]) :
         (log[n][i].outcome = "raise" /\ log[n][i].caller = "submit")
         => submit_result[n] # <<>>

\* The sender call of a deferred retry raised: the record is Retrying with
\* the exception's text as error_message and the next retry is armed.
C17_Witness ==
  \E n \in DOMAIN delivery_queue :
    /\ Len(log[n]) = 2
    /\ log[n][2].outcome = "raise"
    /\ log[n][2].caller = "timer"
    /\ delivery_queue[n].status = "retrying"
    /\ delivery_queue[n].attempts = 2
    /\ delivery_queue[n].error_message = ExceptionText(log[n][2].channel)
    /\ Armed(n, log[n][2].channel, 120) \in BagToSet(timers)

\* --------------------------------------------------------------- C18
\* The error_message of the sender call that entry e records.
Diagnostic(e) == SenderReturn(e.channel, e.outcome).error_message

\* C18: every Exhausted record carries an error_message, and it is the
\* diagnostic of its most recent failed sender call.
C18_ExhaustedKeepsError ==
  \A n \in DOMAIN delivery_queue :
    delivery_queue[n].status = "failed" =>
      /\ delivery_queue[n].error_message # None
      /\ \E i \in 1..Len(log[n]) :
           /\ Failed(log[n][i])
           /\ \A j \in (i + 1)..Len(log[n]) : ~Failed(log[n][j])
           /\ delivery_queue[n].error_message = Diagnostic(log[n][i])

\* --------------------------------------------------------------- C19
\* The counts of get_delivery_stats add up to its total, which is the number
\* of records in the store.
StatsAddUp ==
  LET stats == get_delivery_stats
  IN /\ stats.total_notifications = Cardinality(DOMAIN delivery_queue)
     /\ stats.sent + stats.failed + stats.pending = stats.total_notifications

\* C19 as stated: the counts add up and the rate is delivered / total, and 0
\* for an empty store.
C19_StatsRatio ==
  LET stats == get_delivery_stats
  IN /\ StatsAddUp
     /\ SameFraction(stats.success_rate,
                     IF stats.total_notifications > 0
                     THEN Fraction(stats.sent, stats.total_notifications)
                     ELSE Fraction(0, 1))

\* C19, amended: the counts add up and the rate is the percentage
\* delivered / total * 100, and 0 for an empty store.
C19_StatsPercent ==
  LET stats == get_delivery_stats
  IN /\ StatsAddUp
     /\ SameFraction(stats.success_rate,
                     IF stats.total_notifications > 0
                     THEN Fraction(stats.sent * 100, stats.total_notifications)
                     ELSE Fraction(0, 1))

\* The store holds a Delivered record: the rate is 100.
C19_Witness ==
  /\ get_delivery_stats.sent > 0
  /\ get_delivery_stats.total_notifications > 0
  /\ SameFraction(get_delivery_stats.success_rate, Fraction(100, 1))

\* --------------------------------------------------------------- C20
\* submit returns the record of n in this step.
SubmitReturns(n) ==
  /\ submit_result'[n] # <<>>
  /\ n \in DOMAIN submit_result => submit_result[n] = <<>>

\* C20: submit makes exactly one sender call before it returns; the record it
\* returns is Delivered with attempts = 1 when that call succeeded, and Retrying
\* with attempts = 1 and the 30s retry armed when it failed; every other sender
\* call of the notification is made by a retry task or by the fallback
\* resolution a retry task runs.
C20_SubmitSendsOnce ==
  [][\A n \in DOMAIN submit_result' :
       LET L == log'[n]
       IN /\ \A i \in 1..Len(L) :
               /\ L[i].caller = "submit" => i = 1
               /\ L[i].caller = "fallback" =>
                    /\ Trigger(L, i - 1) >= 1
                    /\ L[Trigger(L, i - 1)].caller = "timer"
          /\ SubmitReturns(n) =>
               LET d == submit_result'[n][1]
               IN /\ Len(L) = 1
                  /\ L[1].caller = "submit"
                  /\ d = delivery_queue'[n]
                  /\ d.attempts = 1
                  /\ IF L[1].outcome = "ok"
                     THEN d.status = "sent"
                     ELSE /\ d.status = "retrying"
                          /\ CopiesIn(Armed(n, Primary(n)', 30), timers') = 1]_vars

\* submit returned a Retrying record; two retries and a fallback send followed
\* in retry tasks.
C20_Witness ==
  \E n \in Submitted :
    /\ submit_result[n] # <<>>
    /\ submit_result[n][1].status = "retrying"
    /\ submit_result[n][1].attempts = 1
    /\ Len(log[n]) = max_retries + 1
    /\ log[n][max_retries + 1].caller = "fallback"

\* --------------------------------------------------------------- C21
\* get_delivery_status hands out the object the store holds under the id.
get_delivery_status(nid) ==
  IF nid \in DOMAIN delivery_queue THEN delivery_queue[nid] ELSE None

\* What the caller of submit reads now in the object submit returned to it:
\* submit returns the object it stored, so this is the stored record.
ReturnedBySubmit(n) == get_delivery_status(n)

\* C21: the record submit returned is a snapshot: the transitions the engine
\* makes after submit returned do not change what the caller reads in it.
C21_ReturnIsSnapshot ==
  \A n \in DOMAIN delivery_queue :
    submit_result[n] # <<>> =>
      Frozen(ReturnedBySubmit(n)) = Frozen(submit_result[n][1])

\* --------------------------------------------------------------- C22
\* The title and the sections a chunk holds text of, in the order of the text.
RECURSIVE Holds(_)
Holds(chunk) ==
  IF chunk = <<>> THEN <<>>
  ELSE IF Head(chunk).ch \in Whitespace THEN Holds(Tail(chunk))
       ELSE <<Head(chunk).ch>> \o Holds(Tail(chunk))

Oversized(section) == len(section.content) > max_message_length

RECURSIVE Join(_)
Join(texts) ==
  IF texts = <<>> THEN <<>>
  ELSE IF Len(texts) = 1 THEN texts[1]
       ELSE Concat(texts[1], Concat(Separator, Join(Tail(texts))))

SectionTexts == [i \in 1..Len(template.sections) |-> template.sections[i].content]

\* The text a chunk holds under the class id.
TextOf(id) == IF id = TitleChar THEN template.title ELSE SectionTexts[id]

RECURSIVE HeldInAll(_)
HeldInAll(chunks) ==
  IF chunks = <<>> THEN <<>> ELSE Holds(Head(chunks)) \o HeldInAll(Tail(chunks))

\* C23 as stated: the chunks joined by the separator are the section texts
\* joined by the separator.
C23_JoinIsSections ==
  message_parts # <<>> => Join(message_parts) = Join(SectionTexts)

\* C23, amended: the chunks hold the title and then every section, each once
\* and in the order of the template, and every chunk is the texts it holds
\* joined by the separator and stripped: no text is split, and nothing but
\* whitespace at the end of a chunk is lost.
C23_SectionsKept ==
  message_parts # <<>> =>
    /\ HeldInAll(message_parts) =
         <<TitleChar>> \o [i \in 1..Len(template.sections) |-> i]
    /\ \A k \in 1..Len(message_parts) :
         LET held == Holds(message_parts[k])
         IN message_parts[k] =
              strip(Join([j \in 1..Len(held) |-> TextOf(held[j])]))

\* The message was split into three chunks or more, one of them holds two
\* sections, and a section that ends with a space closes a chunk.
C23_Witness ==
  /\ Len(message_parts) >= 3
  /\ \E k \in 1..Len(message_parts) : Len(Holds(message_parts[k])) >= 2
  /\ Join(message_parts) # Join(<<template.title>> \o SectionTexts)

\* --------------------------------------------------------------- C24
\* The task of timer t ends its sleep in this step.
Fired(t) ==
  /\ t.remaining = 0
  /\ (IF t \in BagToSet(timers') THEN CopiesIn(t, timers') ELSE 0)
       < CopiesIn(t, timers)
  /\ retry_task' = retry_task

Stale(t) ==
  \/ t.nid \notin DOMAIN delivery_queue
  \/ delivery_queue[t.nid].status # "retrying"

\* C24: a deferred retry that fires when its record is gone from the store or
\* is not Retrying makes no send and changes nothing in the store; the step
\* only ends the timer.
C24_StaleRetryIsNoOp ==
  [][\A t \in BagToSet(timers) :
       (Fired(t) /\ Stale(t)) =>
          /\ UNCHANGED <<delivery_queue, log, inflight, fallbacks>>
          /\ timers' = timers (-) SetToBag({t})]_vars

\* A fallback channel failed and armed its retry, the next fallback channel
\* delivered, and the retry armed in between has fired since.
C24_Witness ==
  \E n \in DOMAIN delivery_queue :
    /\ delivery_queue[n].status = "sent"
    /\ Len(log[n]) = max_retries + 2
    /\ log[n][max_retries + 1].caller = "fallback"
    /\ Failed(log[n][max_retries + 1])
    /\ log[n][max_retries + 2].caller = "fallback"
    /\ log[n][max_retries + 2].outcome = "ok"
    /\ \A t \in BagToSet(timers) : t.nid # n

\* --------------------------------------------------------------- C25
\* C25: a notification has at most one sender call in flight, its record is
\* Sending for as long as the call is, and while the call stays in flight no
\* step starts an attempt on the record: no sender call of the notification
\* completes, its attempts stay as they are and no second call is suspended.
C25_OneSendInFlight ==
  [][\A n \in Submitted' :
       /\ Cardinality(InFlight(inflight', n)) <= 1
       /\ InFlight(inflight', n) # {} =>
            /\ n \in DOMAIN delivery_queue'
            /\ delivery_queue'[n].status = "sending"
       /\ (n \in Submitted /\ InFlight(inflight, n) # {}
           /\ InFlight(inflight, n) \subseteq inflight') =>
            /\ InFlight(inflight', n) = InFlight(inflight, n)
            /\ log'[n] = log[n]
            /\ delivery_queue'[n].attempts = delivery_queue[n].attempts]_vars

\* A chat send is suspended between two chunks while a retry timer of the same
\* notification is due.
C25_Witness ==
  \E n \in Submitted :
    /\ InFlight(inflight, n) # {}
    /\ \E t \in BagToSet(timers) : t.nid = n /\ t.remaining = 0

\* --------------------------------------------------------------- C26
\* The channel of the last sender call made for n.
LastSend(n) == log[n][Len(log[n])]

\* C26: once a send was made for a notification, the channel of its record is
\* the channel of the most recent send, and the channel of a Delivered record
\* is the channel in its delivery confirmation.
C26_ChannelIsLastSend ==
  \A n \in DOMAIN delivery_queue :
    LET d == delivery_queue[n]
    IN /\ (log[n] # <<>> /\ InFlight(inflight, n) = {}) =>
            d.channel = LastSend(n).channel
       /\ d.status = "sent" =>
            /\ d.delivery_confirmation # <<>>
            /\ d.channel = d.delivery_confirmation[1].channel

\* --------------------------------------------------------------- C27
\* The send of n that was in flight ends in this step.
Completed(n) ==
  /\ InFlight(inflight, n) # {}
  /\ Len(log'[n]) > Len(log[n])

\* The sends of n started in this step, in order: the sender calls that ended
\* in it, but for the one that was in flight before, and the one it leaves in
\* flight.
NewSends(n) ==
  LET first == Len(log[n]) + (IF Completed(n) THEN 2 ELSE 1)
      ended == SubSeq(log'[n], first, Len(log'[n]))
      S == InFlight(inflight', n)
  IN IF S # {} /\ (InFlight(inflight, n) = {} \/ Completed(n))
     THEN LET t == CHOOSE x \in S : TRUE
          IN Append(ended, [channel |-> t.channel,
                            caller |-> Caller(t.base, t.fbs)])
     ELSE ended

\* The last send in S that _try_fallback_channels made, or 0.
LastSwitch(S) ==
  LET K == {i \in 1..Len(S) : S[i].caller = "fallback"}
  IN IF K = {} THEN 0 ELSE CHOOSE i \in K : \A j \in K : j <= i

SendsOn(S, c, k) == Cardinality({i \in k..Len(S) : S[i].channel = c})

\* C27: attempts counts the sends started on the record's current channel
\* since the last channel switch or manual retry: a manual retry sets it to 0,
\* a step that switches the channel leaves it at the number of sends made on
\* the new channel since the switch, which is 1, and every other step adds to
\* it the number of sends the step starts on the current channel.
C27_AttemptsCountSends ==
  [][\A n \in DOMAIN delivery_queue \cap DOMAIN delivery_queue' :
       LET d == delivery_queue[n]
           e == delivery_queue'[n]
           S == NewSends(n)
           k == LastSwitch(S)
       IN IF manual_retries'[n] > manual_retries[n]
          THEN e.attempts = 0
          ELSE IF k = 0
               THEN e.attempts = d.attempts + SendsOn(S, d.channel, 1)
               ELSE /\ e.channel = S[k].channel
                    /\ e.attempts = SendsOn(S, e.channel, k)
                    /\ e.attempts = 1]_vars

\* --------------------------------------------------------------- C28
\* C28: a record has a delivery confirmation exactly when it is Delivered.
C28_ConfirmationIffDelivered ==
  \A n \in DOMAIN delivery_queue :
    delivery_queue[n].delivery_confirmation # <<>>
      <=> delivery_queue[n].status = "sent"

\* A record delivered by a retry after a failed send and a manual retry: it
\* went through Sending, Retrying and the reset without a confirmation and has
\* one now.
C28_Witness ==
  \E n \in DOMAIN delivery_queue :
    /\ delivery_queue[n].status = "sent"
    /\ delivery_queue[n].delivery_confirmation # <<>>
    /\ manual_retries[n] > 0
    /\ Len(log[n]) >= 2
    /\ Failed(log[n][1])

\* --------------------------------------------------------------- C29
\* The engine whose background processor is started and not stopped: the
\* sweep makes its passes, and time does not stop short of a day.
NextRunning ==
  \/ Submit
  \/ RetryFires
  \/ ResumeSend
  \/ SweepPass
  \/ start_background_processor
  \/ retry_enhanced_notification
  \/ Tick

RunningSpec ==
  /\ Init
  /\ [][NextRunning]_vars
  /\ WF_vars(TickBy(retention_seconds))
  /\ WF_vars(start_background_processor)
  /\ WF_vars(SweepPass)

\* Sender calls return: again and again no send is suspended.
SendersReturn == []<>(inflight = {})

\* The record of n is Delivered or Exhausted, or was purged as such.
Settled(n) ==
  \/ n \notin DOMAIN delivery_queue
  \/ delivery_queue[n].status \in {"sent", "failed"}

SendChannels(n) ==
  [i \in 1..Len(log[n]) |-> log[n][i].channel]
    \o (IF InFlight(inflight, n) = {} THEN <<>> ELSE <<"telegram">>)

\* C30: for a notification never retried manually, once a send was made on
\* another channel no later send is made on a channel left before; no channel
\* gets more than attempt_limit sends, so that the sends number at most
\* attempt_limit times the number of channels.
C30_NoReturnToChannel ==
  \A n \in Submitted :
    manual_retries[n] = 0 =>
      LET C == SendChannels(n)
      IN /\ \A i \in 1..Len(C) : \A j \in i..Len(C) : \A k \in i..j :
              C[i] = C[j] => C[k] = C[i]
         /\ \A c \in DeliveryChannel :
              Cardinality({i \in 1..Len(C) : C[i] = c}) <= max_retries
         /\ Len(C) <= max_retries * Cardinality(DeliveryChannel)

\* Three sends on the primary channel and one on each fallback channel have
\* failed, and the retries the fallback sends armed have fired since.
C30_Witness ==
  \E n \in Submitted :
    /\ manual_retries[n] = 0
    /\ Len(log[n]) = max_retries + 2
    /\ Cardinality({log[n][i].channel : i \in 1..Len(log[n])}) = 3
    /\ \A i \in 1..Len(log[n]) : Failed(log[n][i])
    /\ NoTimerLeft(n)

\* --------------------------------------------------------------- C31
\* min(attempts - 1, len(retry_delays) - 1): the index both places read the
\* backoff table at.
DelayIndex(attempts) == Min(attempts - 1, Len(retry_delays) - 1)

\* C31: the delay computed for a Retrying record, which the sweep evaluates on
\* every pass and failure handling has used to arm the retry, is the entry of
\* the backoff table at min(attempts - 1, 3), an index in 0..3 that is never
\* negative, also for a record a manual retry has reset.
C31_DelayIndexInTable ==
  \A n \in DOMAIN delivery_queue :
    LET d == delivery_queue[n]
    IN (d.status = "retrying" /\ d.since_attempt # NoTime) =>
         /\ DelayIndex(d.attempts) \in 0..(Len(retry_delays) - 1)
         /\ RetryDelay(d.attempts) = retry_delays[DelayIndex(d.attempts) + 1]

\* --------------------------------------------------------------- C32
\* The number of _schedule_retry tasks asleep for n.
TimersOf(n) ==
  LET S == {t \in BagToSet(timers) : t.nid = n}
      RECURSIVE Count(_)
      Count(T) == IF T = {} THEN 0
                  ELSE LET t == CHOOSE x \in T : TRUE
                       IN CopiesIn(t, timers) + Count(T \ {t})
  IN Count(S)

\* C32: a Retrying record has at most one deferred retry armed: no two retry
\* timers are pending for a notification that would each start an attempt.
C32_OneArmedRetry ==
  \A n \in DOMAIN delivery_queue :
    delivery_queue[n].status = "retrying" => TimersOf(n) <= 1

\* --------------------------------------------------------------- C33
\* except Exception: await asyncio.sleep(60)
error_sleep == 60

\* What a pass has done when it raises.  The records are handled in the order
\* of their ids: in stage 1 the retry loop raised after k records, in stage 2
\* the retry loop is through and the clean-up raised after k records.
PartialPass(q, stage, k) ==
  LET first == {n \in DOMAIN q : Cardinality({j \in DOMAIN q : j <= n}) <= k}
      p == ProcessRetries(q)
  IN IF stage = 1
     THEN [n \in DOMAIN q |-> IF n \in first THEN p[n] ELSE q[n]]
     ELSE [n \in {j \in DOMAIN p : ~(j \in first /\ Expired(p[j]))} |-> p[n]]

\* Mutant: the error ends the sweep task.
TaskEndsOnError == [running |-> FALSE, sleep |-> 0, tasks |-> 0]

\* The task after the except branch was entered: it sleeps 60 s and loops.
AfterError == [retry_task EXCEPT !.sleep = error_sleep]

\* A pass of _process_retry_queue that raises somewhere in its try block.
SweepRaises ==
  /\ retry_task.running
  /\ retry_task.sleep = 0
  /\ \E stage \in 1..2, k \in 0..Cardinality(DOMAIN delivery_queue) :
       delivery_queue' = PartialPass(delivery_queue, stage, k)
  /\ retry_task' = AfterError
  /\ UNCHANGED <<requests, timers, inflight, next_id, log,
                 submit_result, manual_retries, fallbacks, retry_responses,
                 template, message_parts>>

\* The engine whose background processor is not stopped and whose passes may
\* raise: a day passes again and again, and a pass that can be made again and
\* again is eventually made without an error.
NextSweepRaise ==
  \/ NextRunning
  \/ SweepRaises

SweepRaiseSpec ==
  /\ Init
  /\ [][NextSweepRaise]_vars
  /\ WF_vars(TickBy(retention_seconds))
  /\ SF_vars(SweepPass)

\* The sweep task is in its except branch.
SweepFailed == retry_task = AfterError

\* C33: an error raised in a pass does not end the sweep: the task sleeps and
\* makes further passes, so that every record in the store at the time of the
\* error is eventually handled as overdue or delivered and purged.
C33_SweepSurvivesError ==
  SendersReturn =>
    \A n \in 1..MaxNotifications :
      (SweepFailed /\ n \in DOMAIN delivery_queue)
        ~> (retry_task.running /\ n \notin DOMAIN delivery_queue)

\* A pass raised before it handled a record that is overdue.
C33_Witness ==
  /\ SweepFailed
  /\ \E n \in DOMAIN delivery_queue : Overdue(delivery_queue[n])

\* ------------------------------------------------------------------ C34
\* The engine with two notifications in its store: submissions, deferred
\* retries, chunked sends and manual retries of both, interleaved.  The
\* requests are those for the chat channel that have a chat address and no
\* WhatsApp number, and at most MaxPairSends sender calls are made in one
\* behaviour.
PairLimit == MaxNotifications + 1

PairRequests ==
  {r \in Requests : /\ r.primary = "telegram"
                    /\ "telegram" \in r.contact
                    /\ "whatsapp" \notin r.contact}

\* The sender calls of the first i notifications.
RECURSIVE SenderCalls(_, _)
SenderCalls(L, i) ==
  IF i = 0 THEN 0 ELSE SenderCalls(L, i - 1) + Len(L[i])

WithinPairSends == SenderCalls(log', Len(log')) <= MaxPairSends

NextPair ==
  \/ /\ SubmitWithin(PairLimit, Outcomes)
     /\ requests'[next_id'] \in PairRequests
     /\ WithinPairSends
  \/ RetryFires /\ WithinPairSends
  \/ ResumeSend /\ WithinPairSends
  \/ retry_enhanced_notification
  \/ TickBy(retention_seconds)

PairSpec == Init /\ [][NextPair]_vars

\* The record of every notification other than a is what it was.
OthersKept(a) ==
  \A b \in DOMAIN delivery_queue \ {a} :
    /\ b \in DOMAIN delivery_queue'
    /\ delivery_queue'[b] = delivery_queue[b]

\* The step is the deferred retry of timer t.
RetryStep(t) ==
  /\ t.remaining = 0
  /\ \E outs \in Outcomes :
       Apply(_schedule_retry([Machine EXCEPT !.tm = @ (-) SetToBag({t})],
                             t, outs))

\* The step is the chat sender of t going on after its sleep.
ResumeStep(t) ==
  \E outs \in Outcomes :
    Apply(_send_telegram_notification([Machine EXCEPT !.inf = @ \ {t}],
                                      t.nid, t.base, t.fbs, t.next, outs))

\* The step is a call of the retry endpoint for nid.
ManualRetryStep(nid) ==
  /\ Len(retry_responses') = Len(retry_responses) + 1
  /\ retry_responses'[Len(retry_responses')].nid = nid

\* C34: a submission adds exactly one record, under an id no record has, and
\* leaves every record of the store as it is; an attempt with its failure
\* handling and fallbacks, a deferred retry, the next chunk of a chat message
\* and a manual retry of one notification leave the record of every other
\* notification as it is.
C34_OtherRecordsKept ==
  [][/\ next_id' # next_id =>
          /\ Cardinality(DOMAIN delivery_queue' \ DOMAIN delivery_queue) = 1
          /\ \A b \in DOMAIN delivery_queue :
               /\ b \in DOMAIN delivery_queue'
               /\ delivery_queue'[b] = delivery_queue[b]
     /\ \A t \in BagToSet(timers) : RetryStep(t) => OthersKept(t.nid)
     /\ \A t \in inflight : ResumeStep(t) => OthersKept(t.nid)
     /\ \A nid \in NotificationIds : ManualRetryStep(nid) => OthersKept(nid)
    ]_vars

\* Two records are in the store and each has had a deferred retry: one of the
\* retries was made with both records in the store.
C34_Witness ==
  /\ Cardinality(DOMAIN delivery_queue) = 2
  /\ delivery_queue[1].status = "retrying"
  /\ delivery_queue[1].attempts = 2
  /\ delivery_queue[2].attempts = 2

\* --------------------------------------------------------------- C35
\* The section a chunk starts with.
FirstHeld(chunk) == TextOf(Head(Holds(chunk)))

\* C35: when the whole message is within the limit, format_message_parts
\* returns exactly one chunk; otherwise a chunk is closed only when the next
\* section does not fit any more: every chunk but the last one, with the
\* section the next chunk starts with put after it, is longer than the limit.
C35_GreedyPacking ==
  message_parts # <<>> =>
    /\ len(FullMessage(Concat(template.title, Separator), template.sections))
         <= max_message_length
       => Len(message_parts) = 1
    /\ \A k \in 1..(Len(message_parts) - 1) :
         len(Join(<<message_parts[k], FirstHeld(message_parts[k + 1])>>))
           > max_message_length

\* --------------------------------------------------------------- C36
\* The step is the chat sender of t sending its next chunk, the network calls
\* of the step giving the results outs.
ChunkStep(t, outs) ==
  Apply(_send_telegram_notification([Machine EXCEPT !.inf = @ \ {t}],
                                    t.nid, t.base, t.fbs, t.next, outs))

\* The step is the deferred retry of timer t making an attempt on the chat
\* channel for a request that has a chat address.
ChatRetryStep(t, outs) ==
  /\ t.remaining = 0
  /\ t.channel = "telegram"
  /\ delivery_queue[t.nid].status = "retrying"
  /\ "telegram" \in requests[t.nid].contact
  /\ Apply(_schedule_retry([Machine EXCEPT !.tm = @ (-) SetToBag({t})],
                           t, outs))

\* The step is the submission of a request for the chat channel that has a
\* chat address.
ChatSubmitStep(outs) ==
  /\ next_id' = next_id + 1
  /\ LET r == requests'[next_id']
     IN /\ r.primary = "telegram"
        /\ "telegram" \in r.contact
        /\ Apply(_attempt_delivery(SubmitMachine(r), next_id + 1, r.primary,
                                   "submit", <<>>, outs))

\* What the chat sender of notification n has done in this step, in which it
\* sent chunk i with the result head: after a chunk that was sent and is not
\* the last one it waits to send chunk i + 1 and has reported nothing; after
\* the last chunk it reports success; after a chunk that failed it reports
\* the failure and sends no further chunk (the record is delivered in this
\* step only by a fallback channel).
AfterChunk(n, i, head) ==
  LET sent == IF n \in DOMAIN log THEN Len(log[n]) ELSE 0
  IN IF head = "ok" /\ i < requests'[n].parts
     THEN /\ Len(log'[n]) = sent
          /\ delivery_queue'[n].status = "sending"
          /\ \E u \in inflight' : u.nid = n /\ u.next = i + 1
          /\ \A u \in inflight' : u.nid = n => u.next = i + 1
     ELSE /\ Len(log'[n]) > sent
          /\ log'[n][sent + 1].channel = "telegram"
          /\ log'[n][sent + 1].outcome = head
          /\ \A u \in inflight' : u.nid # n
          /\ IF head = "ok"
             THEN /\ Len(log'[n]) = sent + 1
                  /\ delivery_queue'[n].status = "sent"
                  /\ delivery_queue'[n].channel = "telegram"
             ELSE delivery_queue'[n].status = "sent"
                    => /\ Len(log'[n]) > sent + 1
                       /\ delivery_queue'[n].channel # "telegram"

\* The sender call made last for notification n has failed: it found no
\* address, its network call reported a failure, or it raised.
LastCallFailed(n) ==
  /\ log[n] # <<>>
  /\ log[n][Len(log[n])].outcome # "ok"

\* C36: a sender that finds no address for its channel, and a sender whose
\* call fails or raises, returns failure with a diagnostic: the record takes
\* the diagnostic as its error_message and is not delivered.  The chat sender
\* sends its chunks in order: after a chunk that was sent it goes on with the
\* next one and reports nothing yet, after the first chunk that fails it
\* reports the failure and sends no further chunk, and it reports success
\* only when the last chunk has been sent.
C36_SendersReportFailure ==
  [][/\ \A n \in Submitted :
          LastCallFailed(n) =>
            /\ delivery_queue[n].error_message = Diagnostic(log[n][Len(log[n])])
            /\ delivery_queue[n].error_message # None
            /\ delivery_queue[n].status # "sent"
     /\ \A t \in inflight :
          /\ t.next \in 2..requests[t.nid].parts
          /\ delivery_queue[t.nid].status = "sending"
     /\ \A outs \in Triples(CallResults) :
          /\ \A t \in inflight :
               ChunkStep(t, outs) => AfterChunk(t.nid, t.next, Head(outs))
          /\ \A t \in BagToSet(timers) :
               ChatRetryStep(t, outs) => AfterChunk(t.nid, 1, Head(outs))
          /\ ChatSubmitStep(outs) => AfterChunk(next_id + 1, 1, Head(outs))
    ]_vars

\* An attempt on the chat channel raised, the record has the exception's text
\* as its diagnostic, and the retry has sent its first chunk and waits to send
\* the second.
C36_Witness ==
  \E t \in inflight :
    /\ t.next = 2
    /\ LastCallFailed(t.nid)
    /\ log[t.nid][Len(log[t.nid])].outcome = "raise"
    /\ delivery_queue[t.nid].error_message = ExceptionText("telegram")

TypeOK ==
  /\ \A n \in DOMAIN delivery_queue :
       delivery_queue[n].status \in
         {"pending", "sending", "retrying", "sent", "failed"}

====
